---------------------------- MODULE Spec2Model ----------------------------
(***************************************************************************)
(* Kuramoto oscillators on a ring: the simulation engine                   *)
(* (KuramotoSimulator, src/js/main.js 101-384) and the batch experiment    *)
(* runner (Experiments.run, src/js/experiments.js 20-67).                  *)
(*                                                                         *)
(* Number representation.  The program computes on IEEE doubles.  Here     *)
(* every real quantity is a fixed-point integer:                           *)
(*    angles, frequencies, sines, r, dt, intensities, Math.random() draws  *)
(*        in hundredths (1.0 is 100, pi is 314, 2*pi is 628, dt 0.02 is 2) *)
(*    coupling strengths K in thousandths (1.0 is 1000)                    *)
(* and every product is divided back with \div (rounding down), standing   *)
(* for the rounding of the floating-point operation.  Math.sin is Bhaskara *)
(* I's rational approximation on that grid.  The JavaScript remainder      *)
(* operator % keeps the sign of the dividend and is modelled by Rem.       *)
(*                                                                         *)
(* Arrays are functions on 0..N-1, so indices are those of the source.     *)
(***************************************************************************)
EXTENDS Integers, FiniteSets, Sequences, TLC

VARIABLES
    sim,        \* the KuramotoSimulator object under test (its fields)
    simState,   \* "none" (not constructed), "ready", "threw" (constructor threw),
                \* "normalizing" (inside a method, before its normalizePhases())
    calls,      \* number of calls made on sim since construction
    last,       \* the last call made: [op, policy, num, threw]
    label,      \* value returned by the last classifyState() call
    held,       \* contents of the array getPhases() allocated for the caller
    heldRef,    \* which array the caller holds: "none", "copy", "phases"
    exp,        \* Experiments.run: its parameters, loop index, results, pc,
                \* `batch`, the trials executed since it last resumed, and,
                \* kept by the statement-by-statement actions of a trial:
                \* `s` the inner loop index, `ring` the number of rings
                \* constructed so far, `log` the calls made on the current one
    trial,      \* the `sim` local of the current trial of Experiments.run
    appState,   \* the AppState singleton: K, running, sweeping, sweepDirection
    dom,        \* the page elements the handlers write: playPauseBtn's text,
                \* body's 'running' class, kSlider's value, kValue's text
    event       \* the last handler the host ran and the number of handlers
                \* (user events and free-running animation ticks) run so far

vars == <<sim, simState, calls, last, label, held, heldRef, exp, trial,
          appState, dom, event>>
ringVars == <<sim, simState, calls, last, label, held, heldRef>>
expVars == <<exp, trial>>
appVars == <<appState, dom, event>>

---------------------------------------------------------------------------
(* Bounds of the model *)

MaxN == 5           \* ring sizes tried: -1..MaxN
MaxCalls == 2       \* calls made on one ring after its construction
RandLevels == 5     \* Math.random() returns one of k/RandLevels, k < RandLevels
MaxTrials == 3      \* largest numSims a run is started with
MaxSteps == 2       \* largest `steps` a run is started with
MaxRun == 21        \* largest numSims typed for a long run (the default is 50)
MaxFreeSteps == 3   \* step(dt) calls made in a row on one uncoupled ring
LiveN == 2          \* oscillators of the App's simulator (16 in the program)
MaxEvents == 2      \* user events and free-running animation ticks in a session

(* Program constants on the fixed-point grid *)

PI == 314
TWO_PI == 2 * PI
HALF_PI == PI \div 2

---------------------------------------------------------------------------
(* Arithmetic of the host language *)

\* JavaScript a % b for b > 0: the remainder has the sign of the dividend.
Rem(a, b) == IF a >= 0 THEN a % b ELSE -((-a) % b)

Abs(x) == IF x < 0 THEN -x ELSE x

Max(a, b) == IF a >= b THEN a ELSE b

\* Math.round(a / b) for b > 0: the nearest integer, halves towards +infinity.
RoundDiv(a, b) == (2 * a + b) \div (2 * b)

\* Math.sqrt on the grid: the integer square root.
Isqrt(v) == CHOOSE x \in 0..150 : x * x <= v /\ v < (x + 1) * (x + 1)

\* Math.sin on [0, pi], in hundredths, of an angle in hundredths.
SinHalf(x) == (1600 * x * (PI - x)) \div (5 * PI * PI - 4 * x * (PI - x))

\* Math.sin and Math.cos of any angle.
Sin(x) ==
    LET m == x % TWO_PI
    IN  IF m <= PI THEN SinHalf(m) ELSE -SinHalf(m - PI)

Cos(x) == Sin(x + HALF_PI)

\* new Float64Array(n): n zeros.
Float64Array(n) == [i \in 0..(n - 1) |-> 0]

\* Sum of f[0] .. f[n-1].
RECURSIVE SumTo(_, _)
SumTo(f, n) == IF n <= 0 THEN 0 ELSE f[n - 1] + SumTo(f, n - 1)

---------------------------------------------------------------------------
(* Math.random(): a draw is a value in [0, 1), in hundredths.  A call that *)
(* draws m times receives one of the sequences below: the levels           *)
(* k/RandLevels taken along an arithmetic progression of stride b, which   *)
(* gives the constant sequence (b = 0), evenly rising and evenly falling   *)
(* ones (windings of both signs) and draws on both sides of 0.5.           *)

Level(k) == (100 * k) \div RandLevels

Draws(m) ==
    { [j \in 0..(m - 1) |-> Level((b * (j + 1)) % RandLevels)] :
        b \in 0..(RandLevels - 1) }

NoDraws == Float64Array(0)

\* Draws made independently of each other, each from a few values of [0, 1).
CoarseLevels == {0, 25, 49, 98}

IndependentDraws(m) == [0..(m - 1) -> CoarseLevels]

---------------------------------------------------------------------------
(* KuramotoSimulator: the methods as functions of the object's fields *)

\* normalizePhases() with a single remainder, which keeps a negative phase
\* negative.
NormalizePhasesTruncating(s) ==
    [s EXCEPT !.phases = [i \in 0..(s.N - 1) |-> Rem(s.phases[i], TWO_PI)]]

\* normalizePhases()
NormalizePhases(s) ==
    [s EXCEPT !.phases =
        [i \in 0..(s.N - 1) |-> Rem(Rem(s.phases[i], TWO_PI) + TWO_PI, TWO_PI)]]

\* setFrequencies(type) splitting 'twoGroups' at Math.floor(N/2).
SetFrequenciesFloorSplit(s, type, dr) ==
    CASE type = "identical" ->
            [s EXCEPT !.frequencies = [i \in 0..(s.N - 1) |-> 100]]
      [] type = "random" ->
            [s EXCEPT !.frequencies =
                [i \in 0..(s.N - 1) |-> 80 + (dr[i] * 40) \div 100]]
      [] type = "twoGroups" ->
            [s EXCEPT !.frequencies =
                [i \in 0..(s.N - 1) |-> IF i < s.N \div 2 THEN 80 ELSE 120]]
      [] OTHER -> s

\* setFrequencies(type); dr holds the draws of the 'random' policy.
\* (i < N/2 is a comparison with the real N/2, that is 2i < N.)
SetFrequencies(s, type, dr) ==
    CASE type = "identical" ->
            [s EXCEPT !.frequencies = [i \in 0..(s.N - 1) |-> 100]]
      [] type = "random" ->
            [s EXCEPT !.frequencies =
                [i \in 0..(s.N - 1) |-> 80 + (dr[i] * 40) \div 100]]
      [] type = "twoGroups" ->
            [s EXCEPT !.frequencies =
                [i \in 0..(s.N - 1) |-> IF 2 * i < s.N THEN 80 ELSE 120]]
      [] OTHER -> s

\* The switch of setInitialPhases(type), before the final normalizePhases().
InitialPhases(s, type, dr) ==
    CASE type = "random" ->
            [i \in 0..(s.N - 1) |-> (dr[i] * TWO_PI) \div 100]
      [] type = "quasiSync" ->
            LET center == (dr[0] * TWO_PI) \div 100
            IN  [i \in 0..(s.N - 1) |-> center + ((dr[i + 1] - 50) * 30) \div 100]
      [] type = "twisted1" ->
            [i \in 0..(s.N - 1) |-> (TWO_PI * i) \div s.N]
      [] type = "twisted2" ->
            [i \in 0..(s.N - 1) |-> (4 * PI * i) \div s.N]
      [] OTHER -> s.phases

\* setInitialPhases(type)
SetInitialPhases(s, type, dr) ==
    NormalizePhases([s EXCEPT !.phases = InitialPhases(s, type, dr)])

\* Number of Math.random() calls a policy makes on a ring of n oscillators.
FreqDraws(type, n) == IF type = "random" THEN Draws(n) ELSE {NoDraws}

InitDraws(type, n) ==
    CASE type = "random" -> Draws(n)
      [] type = "quasiSync" -> Draws(n + 1)
      [] OTHER -> {NoDraws}

\* new KuramotoSimulator(N), for N >= 0 (a negative length makes
\* new Float64Array(N) throw a RangeError).
NewSimulator(n, dr) ==
    LET s0 == [N |-> n,
               phases |-> Float64Array(n),
               frequencies |-> Float64Array(n),
               dPhases |-> Float64Array(n),
               K |-> 1000]
    IN  SetInitialPhases(SetFrequencies(s0, "identical", NoDraws), "random", dr)

\* perturb(intensity) taking a falsy intensity (0) for a missing argument and
\* using the default 0.1 instead.
PerturbDefaulting(s, intensity, dr) ==
    LET used == IF intensity = 0 THEN 10 ELSE intensity
    IN  NormalizePhases([s EXCEPT !.phases =
            [i \in 0..(s.N - 1) |->
                s.phases[i] + ((dr[i] - 50) * 2 * used * PI) \div 10000]])

\* perturb(intensity)
Perturb(s, intensity, dr) ==
    NormalizePhases([s EXCEPT !.phases =
        [i \in 0..(s.N - 1) |->
            s.phases[i] + ((dr[i] - 50) * 2 * intensity * PI) \div 10000]])

\* computeDerivatives() with the coupling term at strength 1 whatever K is.
ComputeDerivativesUnitCoupling(s) ==
    [s EXCEPT !.dPhases =
        [i \in 0..(s.N - 1) |->
            LET iPrev == (i - 1 + s.N) % s.N
                iNext == (i + 1) % s.N
                coupling == (1000 * (Sin(s.phases[iNext] - s.phases[i])
                                     + Sin(s.phases[iPrev] - s.phases[i]))) \div 2000
            IN  s.frequencies[i] + coupling]]

\* computeDerivatives(): fills this.dPhases from this.phases.
ComputeDerivatives(s) ==
    [s EXCEPT !.dPhases =
        [i \in 0..(s.N - 1) |->
            LET iPrev == (i - 1 + s.N) % s.N
                iNext == (i + 1) % s.N
                coupling == (s.K * (Sin(s.phases[iNext] - s.phases[i])
                                    + Sin(s.phases[iPrev] - s.phases[i]))) \div 2000
            IN  s.frequencies[i] + coupling]]

\* computeDerivativesFor(phases, output) multiplying by K where
\* computeDerivatives() multiplies by halfK.
ComputeDerivativesForFullK(s, phases) ==
    [i \in 0..(s.N - 1) |->
        LET iPrev == (i - 1 + s.N) % s.N
            iNext == (i + 1) % s.N
            coupling == (s.K * (Sin(phases[iNext] - phases[i])
                                + Sin(phases[iPrev] - phases[i]))) \div 1000
        IN  s.frequencies[i] + coupling]

\* computeDerivativesFor(phases, output): the value written to output.
ComputeDerivativesFor(s, phases) ==
    [i \in 0..(s.N - 1) |->
        LET iPrev == (i - 1 + s.N) % s.N
            iNext == (i + 1) % s.N
            coupling == (s.K * (Sin(phases[iNext] - phases[i])
                                + Sin(phases[iPrev] - phases[i]))) \div 2000
        IN  s.frequencies[i] + coupling]

\* step(dt)
Step(s, dt) ==
    LET d == ComputeDerivatives(s)
    IN  NormalizePhases([d EXCEPT !.phases =
            [i \in 0..(s.N - 1) |-> d.phases[i] + (d.dPhases[i] * dt) \div 100]])

\* stepRK4(dt)
StepRK4(s, dt) ==
    LET d == ComputeDerivatives(s)
        k1 == d.dPhases
        t2 == [i \in 0..(s.N - 1) |-> d.phases[i] + (dt * k1[i]) \div 200]
        k2 == ComputeDerivativesFor(d, t2)
        t3 == [i \in 0..(s.N - 1) |-> d.phases[i] + (dt * k2[i]) \div 200]
        k3 == ComputeDerivativesFor(d, t3)
        t4 == [i \in 0..(s.N - 1) |-> d.phases[i] + (dt * k3[i]) \div 100]
        k4 == ComputeDerivativesFor(d, t4)
    IN  NormalizePhases([d EXCEPT !.phases =
            [i \in 0..(s.N - 1) |->
                d.phases[i]
                + (dt * (k1[i] + 2 * k2[i] + 2 * k3[i] + k4[i])) \div 600]])

\* getOrderParameter(): r in hundredths; nan when N = 0 (0/0).  psi is not
\* modelled: no property of the model reads it.
GetOrderParameter(s) ==
    IF s.N = 0
    THEN [nan |-> TRUE, r |-> 0]
    ELSE LET sumCos == SumTo([i \in 0..(s.N - 1) |-> Cos(s.phases[i])], s.N) \div s.N
             sumSin == SumTo([i \in 0..(s.N - 1) |-> Sin(s.phases[i])], s.N) \div s.N
         IN  [nan |-> FALSE, r |-> Isqrt(sumCos * sumCos + sumSin * sumSin)]

\* The first loop of getWindingNumber() as a single `if`.
WrapDownOnce(diff) == IF diff > PI THEN diff - TWO_PI ELSE diff

\* The two while loops of getWindingNumber().
RECURSIVE WrapDown(_)
WrapDown(diff) == IF diff > PI THEN WrapDown(diff - TWO_PI) ELSE diff

RECURSIVE WrapUp(_)
WrapUp(diff) == IF diff < -PI THEN WrapUp(diff + TWO_PI) ELSE diff

\* getWindingNumber() summing the raw differences, without the wrap loops.
GetWindingNumberUnwrapped(s) ==
    LET totalWinding ==
            SumTo([i \in 0..(s.N - 1) |->
                      s.phases[(i + 1) % s.N] - s.phases[i]], s.N)
    IN  RoundDiv(totalWinding, TWO_PI)

\* getWindingNumber()
GetWindingNumber(s) ==
    LET totalWinding ==
            SumTo([i \in 0..(s.N - 1) |->
                      WrapUp(WrapDown(s.phases[(i + 1) % s.N] - s.phases[i]))], s.N)
    IN  RoundDiv(totalWinding, TWO_PI)

\* getPhaseVariance()
GetPhaseVariance(s) ==
    LET o == GetOrderParameter(s) IN [nan |-> o.nan, v |-> 100 - o.r]

\* Comparisons with a possibly-NaN r: every comparison with NaN is false.
Gt(o, x) == ~o.nan /\ o.r > x
Lt(o, x) == ~o.nan /\ o.r < x

\* classifyState() with the thresholds of the experiment runner.
ClassifyStateExperimentThresholds(s) ==
    LET o == GetOrderParameter(s)
        q == GetWindingNumber(s)
    IN  IF Gt(o, 85) THEN <<"Synchronise", 0, 0>>
        ELSE IF Abs(q) = 1 THEN <<"Twisted", 0, q>>
        ELSE IF Abs(q) = 2 THEN <<"Twisted", 0, q>>
        ELSE IF Lt(o, 30) THEN <<"Desynchronise", 0, 0>>
        ELSE <<"Partiel", IF o.nan THEN -1 ELSE o.r, q>>

\* classifyState(): the label as <<kind, r, q>> (r and q are 0 where the
\* label's text does not contain them; r.toFixed(2) is r in hundredths).
ClassifyState(s) ==
    LET o == GetOrderParameter(s)
        q == GetWindingNumber(s)
    IN  IF Gt(o, 90) THEN <<"Synchronise", 0, 0>>
        ELSE IF Abs(q) = 1 /\ Lt(o, 50) THEN <<"Twisted", 0, q>>
        ELSE IF Abs(q) = 2 /\ Lt(o, 30) THEN <<"Twisted", 0, q>>
        ELSE IF Lt(o, 30) THEN <<"Desynchronise", 0, 0>>
        ELSE <<"Partiel", IF o.nan THEN -1 ELSE o.r, q>>

\* setCoupling(K) without the clamp.
SetCouplingUnclamped(s, k) == [s EXCEPT !.K = k]

\* setCoupling(K)
SetCoupling(s, k) == [s EXCEPT !.K = Max(0, k)]


\* getPhases() returning this.phases itself.
GetPhasesAliased(s) == [ref |-> "phases", data |-> s.phases]

\* getPhases(): `new Float64Array(this.phases)` allocates a fresh array, so
\* the caller receives a reference to a copy, not to this.phases.
GetPhases(s) == [ref |-> "copy", data |-> s.phases]

---------------------------------------------------------------------------
(* Inputs tried by the callers of the ring *)

Sizes == (-1)..MaxN
FreqTypes == {"identical", "random", "twoGroups", "bogus"}
InitTypes == {"random", "quasiSync", "twisted1", "twisted2", "bogus"}
KnownFreqTypes == {"identical", "random", "twoGroups"}
KnownInitTypes == {"random", "quasiSync", "twisted1", "twisted2"}
Intensities == {0, 10, 300}
Dts == {2, 8}
Couplings == {-500, 0, 7000}
WrittenValues == {700}

NoRing ==
    [N |-> 0, phases |-> Float64Array(0), frequencies |-> Float64Array(0),
     dPhases |-> Float64Array(0), K |-> 0]

NoLabel == <<"", 0, 0>>

NoResults == [sync |-> 0, twisted1 |-> 0, twisted2 |-> 0, other |-> 0, total |-> 0]

Call(op, policy, num) == [op |-> op, policy |-> policy, num |-> num, threw |-> FALSE]

Thrown(op, policy, num) == [op |-> op, policy |-> policy, num |-> num, threw |-> TRUE]

\* The array the caller of getPhases() holds, as the caller reads it.
HeldView == IF heldRef = "phases" THEN sim.phases ELSE held

---------------------------------------------------------------------------
(* The ring under test: one action per call *)

InitRing ==
    /\ sim = NoRing
    /\ simState = "none"
    /\ calls = 0
    /\ last = Call("none", "", 0)
    /\ label = NoLabel
    /\ held = Float64Array(0)
    /\ heldRef = "none"

InitExp ==
    /\ exp = [pc |-> "idle", numSims |-> 0, K |-> 0, N |-> 0, steps |-> 0,
              i |-> 0, results |-> NoResults, returned |-> NoResults,
              batch |-> 0, s |-> 0, ring |-> 0, log |-> <<>>]
    /\ trial = NoRing

\* The AppState singleton as its constructor leaves it.  K is in
\* thousandths.  The fields no handler modelled here assigns (dt = 0.02,
\* speedMultiplier = 1.0, sweepSpeed = 0.005) are the definitions APP_DT,
\* SPEED and SWEEP_SPEED; time and the history arrays, which are only
\* appended to and drawn, are left out.
DEFAULT_K == 1000

NewAppState ==
    [K |-> DEFAULT_K, running |-> FALSE, sweeping |-> FALSE, sweepDirection |-> 0]

\* The page before the App is constructed.  The markup is not part of the
\* sources: playPauseBtn keeps the markup's text until a handler writes it.
NewDom == [playPauseBtn |-> "markup", bodyRunning |-> FALSE, kSlider |-> 0, kValue |-> 0]

InitApp ==
    /\ appState = NewAppState
    /\ dom = NewDom
    /\ event = [name |-> "none", n |-> 0]

Init == InitRing /\ InitExp /\ InitApp

\* new KuramotoSimulator(n)
Construct ==
    /\ simState = "none"
    /\ \E n \in Sizes :
          IF n < 0
          THEN /\ simState' = "threw"
               /\ last' = Thrown("new", "", n)
               /\ sim' = sim
          ELSE \E dr \in Draws(n) :
                  /\ sim' = NewSimulator(n, dr)
                  /\ simState' = "ready"
                  /\ last' = Call("new", "", n)
    /\ calls' = 0
    /\ label' = NoLabel
    /\ UNCHANGED <<held, heldRef, expVars, appVars>>

\* new KuramotoSimulator(n) with independent draws.
ConstructIndependent ==
    /\ simState = "none"
    /\ \E n \in Sizes :
          IF n < 0
          THEN /\ simState' = "threw"
               /\ last' = Thrown("new", "", n)
               /\ sim' = sim
          ELSE \E dr \in IndependentDraws(n) :
                  /\ sim' = NewSimulator(n, dr)
                  /\ simState' = "ready"
                  /\ last' = Call("new", "", n)
    /\ calls' = 0
    /\ label' = NoLabel
    /\ UNCHANGED <<held, heldRef, expVars, appVars>>

\* A call on the constructed ring is possible.
CanCall == simState = "ready" /\ calls < MaxCalls

\* What every mutating call leaves alone or resets.
AfterMutation ==
    /\ calls' = calls + 1
    /\ label' = NoLabel
    /\ UNCHANGED <<simState, held, heldRef, expVars, appVars>>

CallSetFrequencies ==
    /\ CanCall
    /\ \E type \in FreqTypes : \E dr \in FreqDraws(type, sim.N) :
          /\ sim' = SetFrequencies(sim, type, dr)
          /\ last' = Call("setFrequencies", type, 0)
    /\ AfterMutation

CallSetInitialPhases ==
    /\ CanCall
    /\ \E type \in InitTypes : \E dr \in InitDraws(type, sim.N) :
          /\ sim' = SetInitialPhases(sim, type, dr)
          /\ last' = Call("setInitialPhases", type, 0)
    /\ AfterMutation

CallPerturb ==
    /\ CanCall
    /\ \E intensity \in Intensities : \E dr \in Draws(sim.N) :
          /\ sim' = Perturb(sim, intensity, dr)
          /\ last' = Call("perturb", "", intensity)
    /\ AfterMutation

CallStep ==
    /\ CanCall
    /\ \E dt \in Dts :
          /\ sim' = Step(sim, dt)
          /\ last' = Call("step", "", dt)
    /\ AfterMutation

CallStepRK4 ==
    /\ CanCall
    /\ \E dt \in Dts :
          /\ sim' = StepRK4(sim, dt)
          /\ last' = Call("stepRK4", "", dt)
    /\ AfterMutation

CallSetCoupling ==
    /\ CanCall
    /\ \E k \in Couplings :
          /\ sim' = SetCoupling(sim, k)
          /\ last' = Call("setCoupling", "", k)
    /\ AfterMutation

CallClassifyState ==
    /\ CanCall
    /\ label' = ClassifyState(sim)
    /\ last' = Call("classifyState", "", 0)
    /\ calls' = calls + 1
    /\ UNCHANGED <<sim, simState, held, heldRef, expVars, appVars>>

CallGetPhases ==
    /\ CanCall
    /\ LET got == GetPhases(sim)
       IN  /\ heldRef' = got.ref
           /\ held' = got.data
    /\ last' = Call("getPhases", "", 0)
    /\ calls' = calls + 1
    /\ label' = NoLabel
    /\ UNCHANGED <<sim, simState, expVars, appVars>>

\* The caller stores v at index i of the array getPhases() returned.
CallerWrite ==
    /\ CanCall
    /\ heldRef # "none"
    /\ \E i \in 0..(sim.N - 1) : \E v \in WrittenValues :
          /\ IF heldRef = "phases"
             THEN sim' = [sim EXCEPT !.phases[i] = v] /\ held' = held
             ELSE held' = [held EXCEPT ![i] = v] /\ sim' = sim
          /\ last' = Call("callerWrite", "", i)
    /\ calls' = calls + 1
    /\ label' = NoLabel
    /\ UNCHANGED <<simState, heldRef, expVars, appVars>>

Next ==
    \/ Construct
    \/ CallSetFrequencies
    \/ CallSetInitialPhases
    \/ CallPerturb
    \/ CallStep
    \/ CallStepRK4
    \/ CallSetCoupling
    \/ CallClassifyState
    \/ CallGetPhases
    \/ CallerWrite

Spec == Init /\ [][Next]_vars

\* One ring with independently drawn phases, re-initialised, stepped and
\* classified.
NextDraw ==
    \/ ConstructIndependent
    \/ CallSetInitialPhases
    \/ CallStep
    \/ CallClassifyState

SpecDraw == Init /\ [][NextDraw]_vars

---------------------------------------------------------------------------
(* setInitialPhases and perturb in two parts: the loop that assigns the     *)
(* phases, then the normalizePhases() call that ends the method.  Between   *)
(* the two the ring is inside the method and accepts no other call.         *)

\* setInitialPhases(type) up to its normalizePhases() call.
AssignInitialPhases ==
    /\ CanCall
    /\ \E type \in KnownInitTypes : \E dr \in InitDraws(type, sim.N) :
          /\ sim' = [sim EXCEPT !.phases = InitialPhases(sim, type, dr)]
          /\ last' = Call("setInitialPhases", type, 0)
    /\ simState' = "normalizing"
    /\ label' = NoLabel
    /\ UNCHANGED <<calls, held, heldRef, expVars, appVars>>

\* perturb(intensity) up to its normalizePhases() call.
AddPerturbation ==
    /\ CanCall
    /\ \E intensity \in Intensities : \E dr \in Draws(sim.N) :
          /\ sim' = [sim EXCEPT !.phases =
                        [i \in 0..(sim.N - 1) |->
                            sim.phases[i] + ((dr[i] - 50) * 2 * intensity * PI) \div 10000]]
          /\ last' = Call("perturb", "", intensity)
    /\ simState' = "normalizing"
    /\ label' = NoLabel
    /\ UNCHANGED <<calls, held, heldRef, expVars, appVars>>

\* this.normalizePhases(), and the method returns.
FinishNormalizePhases ==
    /\ simState = "normalizing"
    /\ sim' = NormalizePhases(sim)
    /\ simState' = "ready"
    /\ calls' = calls + 1
    /\ UNCHANGED <<last, label, held, heldRef, expVars, appVars>>

\* One call is made on a ring with independently drawn phases: it is
\* re-initialised, perturbed or stepped.
Fresh == last.op = "new"

NextWinding ==
    \/ ConstructIndependent
    \/ Fresh /\ AssignInitialPhases
    \/ Fresh /\ AddPerturbation
    \/ FinishNormalizePhases
    \/ Fresh /\ CallStep
    \/ Fresh /\ CallStepRK4

SpecWinding == Init /\ [][NextWinding]_vars

---------------------------------------------------------------------------
(* step(dt) called repeatedly on one ring.  The inputs are drawn by the     *)
(* initial predicate: a ring of any size, coupling 0 or 1, any frequency    *)
(* policy and any initial-phase policy, and the copy of its phases that a   *)
(* getPhases() call returned before the first step.                         *)

FreeCouplings == {0, 1000}

InitFree ==
    /\ \E n \in 1..MaxN, k \in FreeCouplings,
          ftype \in KnownFreqTypes, itype \in KnownInitTypes :
          \E dr \in Draws(n), fd \in FreqDraws(ftype, n), pd \in InitDraws(itype, n) :
              sim = SetInitialPhases(
                        SetFrequencies(SetCoupling(NewSimulator(n, dr), k), ftype, fd),
                        itype, pd)
    /\ simState = "ready"
    /\ calls = 0
    /\ last = Call("getPhases", "", 0)
    /\ label = NoLabel
    /\ held = GetPhases(sim).data
    /\ heldRef = GetPhases(sim).ref
    /\ InitExp
    /\ InitApp

\* step(dt) again, with the dt of the previous call.
StepAgain ==
    /\ simState = "ready"
    /\ calls < MaxFreeSteps
    /\ \E dt \in Dts :
          /\ last.op = "step" => dt = last.num
          /\ sim' = Step(sim, dt)
          /\ last' = Call("step", "", dt)
    /\ calls' = calls + 1
    /\ label' = NoLabel
    /\ UNCHANGED <<simState, held, heldRef, expVars, appVars>>

NextFree == StepAgain

SpecFree == InitFree /\ [][NextFree]_vars


---------------------------------------------------------------------------
(* Experiments.run and the click handler that starts it *)

\* parseInt(text) yields NaN or an integer.
ParsedInputs ==
    {[nan |-> TRUE, n |-> 0]} \cup {[nan |-> FALSE, n |-> k] : k \in (-2)..MaxTrials}

\* parseInt(...) || 50: NaN and 0 are falsy.
DEFAULT_SIMS == 50

ParseIntOrDefault(p) == IF p.nan \/ p.n = 0 THEN DEFAULT_SIMS ELSE p.n

\* The fixed time step of a trial, 0.02.
EXP_DT == 2

ExpCouplings == {0, 1000, 5000}
ExpSizes == 0..MaxN
ExpSteps == 0..MaxSteps

\* The inner loop of a trial: `steps` calls of sim.step(0.02).
RECURSIVE StepTimes(_, _)
StepTimes(s, n) == IF n <= 0 THEN s ELSE StepTimes(Step(s, EXP_DT), n - 1)

\* The ring of one trial, from construction to the end of the inner loop.
RunTrial(N, K, steps, dr0, dr1) ==
    LET s0 == NewSimulator(N, dr0)
        s1 == SetCoupling(s0, K)
        s2 == SetFrequencies(s1, "identical", NoDraws)
        s3 == SetInitialPhases(s2, "random", dr1)
    IN  StepTimes(s3, steps)

\* The if-chain of a trial with the thresholds of classifyState().
TrialClassLiveThresholds(s) ==
    LET o == GetOrderParameter(s)
        q == GetWindingNumber(s)
    IN  IF Gt(o, 90) THEN "sync"
        ELSE IF Abs(q) = 1 /\ Lt(o, 50) THEN "twisted1"
        ELSE IF Abs(q) = 2 /\ Lt(o, 30) THEN "twisted2"
        ELSE "other"

\* The if-chain classifying a finished trial: the counter it increments.
TrialClass(s) ==
    LET o == GetOrderParameter(s)
        q == GetWindingNumber(s)
    IN  IF Gt(o, 85) THEN "sync"
        ELSE IF Abs(q) = 1 THEN "twisted1"
        ELSE IF Abs(q) = 2 THEN "twisted2"
        ELSE "other"

\* results.<counter>++
Increment(results, counter) == [results EXCEPT ![counter] = @ + 1]

\* The click handler of runExperimentBtn up to the loop of run(): numSims
\* from the input field, K from the application state.  Runs of more than
\* MaxTrials trials, other ring sizes and step counts are left out.
RunExperimentClick ==
    /\ exp.pc = "idle"
    /\ \E p \in ParsedInputs, K \in ExpCouplings, N \in ExpSizes, steps \in ExpSteps :
          LET numSims == ParseIntOrDefault(p)
          IN  /\ numSims <= MaxTrials
              /\ exp' = [pc |-> "loop", numSims |-> numSims, K |-> K, N |-> N,
                         steps |-> steps, i |-> 0,
                         results |-> [NoResults EXCEPT !.total = numSims],
                         returned |-> NoResults, batch |-> 0,
                         s |-> 0, ring |-> 0, log |-> <<>>]
    /\ UNCHANGED <<trial, ringVars, appVars>>

\* The same click for long runs on a small ring: the field left empty (the
\* default of 50 trials) or holding a number above ten.
LongInputs ==
    {[nan |-> TRUE, n |-> 0]} \cup {[nan |-> FALSE, n |-> k] : k \in (MaxRun - 1)..MaxRun}

RunLongExperimentClick ==
    /\ exp.pc = "idle"
    /\ \E p \in LongInputs :
          LET numSims == ParseIntOrDefault(p)
          IN  exp' = [pc |-> "loop", numSims |-> numSims, K |-> 1000, N |-> 2,
                      steps |-> 0, i |-> 0,
                      results |-> [NoResults EXCEPT !.total = numSims],
                      returned |-> NoResults, batch |-> 0,
                      s |-> 0, ring |-> 0, log |-> <<>>]
    /\ UNCHANGED <<trial, ringVars, appVars>>

\* The progress test with the count of finished trials, (i + 1) % 10.
ShouldYieldEveryTenth(i) == (i + 1) % 10 = 0

\* if (i % 10 === 0): the trial of index i ends with the progress update and
\* the await.
ShouldYield(i) == i % 10 = 0

\* sim.setCoupling reading the application's current K.
TrialKLive == appState.K

\* The K a trial passes to sim.setCoupling: the parameter K of run().
TrialK == exp.K

\* One iteration of the for loop, up to its await or to the next iteration.
Trial ==
    /\ exp.pc = "loop"
    /\ exp.i < exp.numSims
    /\ \E dr0 \in Draws(exp.N), dr1 \in Draws(exp.N) :
          trial' = RunTrial(exp.N, TrialK, exp.steps, dr0, dr1)
    /\ LET counted == Increment(exp.results, TrialClass(trial'))
       IN  IF ShouldYield(exp.i)
           THEN exp' = [exp EXCEPT !.results = counted, !.batch = @ + 1,
                                   !.pc = "awaiting"]
           ELSE exp' = [exp EXCEPT !.results = counted, !.batch = @ + 1,
                                   !.i = @ + 1]
    /\ UNCHANGED <<ringVars, appVars>>

\* The timer of `await new Promise(r => setTimeout(r, 0))` fires.
Resume ==
    /\ exp.pc = "awaiting"
    /\ exp' = [exp EXCEPT !.pc = "loop", !.i = @ + 1, !.batch = 0]
    /\ UNCHANGED <<trial, ringVars, appVars>>

\* The loop ends: this.results = results; return results.
Finish ==
    /\ exp.pc = "loop"
    /\ ~(exp.i < exp.numSims)
    /\ exp' = [exp EXCEPT !.pc = "done", !.returned = exp.results]
    /\ UNCHANGED <<trial, ringVars, appVars>>

NextExp ==
    \/ RunExperimentClick
    \/ Trial
    \/ Resume
    \/ Finish

SpecExp == Init /\ [][NextExp]_vars

---------------------------------------------------------------------------
(* The body of the trial loop, one statement at a time.  exp.pc tells where *)
(* the loop body stands: "loop" at its head, then "constructed", "coupled", *)
(* "tuned", "stepping" (the inner loop), and back to "loop" or "awaiting".  *)

Logged(op, arg) == [op |-> op, arg |-> arg]

\* const sim = new KuramotoSimulator(N)
TrialNew ==
    /\ exp.pc = "loop"
    /\ exp.i < exp.numSims
    /\ \E dr \in Draws(exp.N) : trial' = NewSimulator(exp.N, dr)
    /\ exp' = [exp EXCEPT !.pc = "constructed", !.ring = @ + 1,
                          !.log = <<Logged("new", exp.N)>>]
    /\ UNCHANGED <<ringVars, appVars>>

\* sim.setCoupling(K)
TrialSetCoupling ==
    /\ exp.pc = "constructed"
    /\ trial' = SetCoupling(trial, TrialK)
    /\ exp' = [exp EXCEPT !.pc = "coupled",
                          !.log = Append(@, Logged("setCoupling", TrialK))]
    /\ UNCHANGED <<ringVars, appVars>>

\* sim.setFrequencies('identical')
TrialSetFrequencies ==
    /\ exp.pc = "coupled"
    /\ trial' = SetFrequencies(trial, "identical", NoDraws)
    /\ exp' = [exp EXCEPT !.pc = "tuned",
                          !.log = Append(@, Logged("setFrequencies", "identical"))]
    /\ UNCHANGED <<ringVars, appVars>>

\* sim.setInitialPhases('random'), and the inner loop starts with s = 0.
TrialSetInitialPhases ==
    /\ exp.pc = "tuned"
    /\ \E dr \in Draws(exp.N) : trial' = SetInitialPhases(trial, "random", dr)
    /\ exp' = [exp EXCEPT !.pc = "stepping", !.s = 0,
                          !.log = Append(@, Logged("setInitialPhases", "random"))]
    /\ UNCHANGED <<ringVars, appVars>>

\* The inner loop test with <= for <.
InnerLoopContinuesInclusive(s, steps) == s <= steps

\* for (let s = 0; s < steps; s++): the test.
InnerLoopContinues(s, steps) == s < steps

\* sim.step(0.02); s++
TrialStep ==
    /\ exp.pc = "stepping"
    /\ InnerLoopContinues(exp.s, exp.steps)
    /\ trial' = Step(trial, EXP_DT)
    /\ exp' = [exp EXCEPT !.s = @ + 1, !.log = Append(@, Logged("step", EXP_DT))]
    /\ UNCHANGED <<ringVars, appVars>>

\* The inner loop is over: r and q are read, the trial is counted, and the
\* iteration ends with the await or with i++.
TrialClassify ==
    /\ exp.pc = "stepping"
    /\ ~InnerLoopContinues(exp.s, exp.steps)
    /\ LET counted == Increment(exp.results, TrialClass(trial))
           read == Append(Append(exp.log, Logged("getOrderParameter", 0)),
                          Logged("getWindingNumber", 0))
       IN  IF ShouldYield(exp.i)
           THEN exp' = [exp EXCEPT !.results = counted, !.batch = @ + 1,
                                   !.log = read, !.pc = "awaiting"]
           ELSE exp' = [exp EXCEPT !.results = counted, !.batch = @ + 1,
                                   !.log = read, !.pc = "loop", !.i = @ + 1]
    /\ UNCHANGED <<trial, ringVars, appVars>>

NextTrial ==
    \/ RunExperimentClick
    \/ TrialNew
    \/ TrialSetCoupling
    \/ TrialSetFrequencies
    \/ TrialSetInitialPhases
    \/ TrialStep
    \/ TrialClassify
    \/ Resume
    \/ Finish

SpecTrial == Init /\ [][NextTrial]_vars

\* Long runs: more than ten trials, so that the loop suspends several times.
NextYield ==
    \/ RunLongExperimentClick
    \/ Trial
    \/ Resume
    \/ Finish

SpecYield == Init /\ [][NextYield]_vars


---------------------------------------------------------------------------
(* The application: AppState (state.js), Controls (controls.js) and App     *)
(* (main.js).  The host runs one handler at a time, to completion: a user   *)
(* event, an animation frame, or the timer that resumes Experiments.run.    *)

K_MAX == 5000          \* the upper end of K in setK and updateSweep, 5
SWEEP_SPEED == 5       \* this.sweepSpeed = 0.005
APP_DT == 2            \* this.dt = 0.02
SPEED == 100           \* this.speedMultiplier = 1.0

Min(a, b) == IF a <= b THEN a ELSE b

\* AppState.setRunning(running)
SetRunning(a, running) == [a EXCEPT !.running = running]

\* AppState.toggleRunning()
ToggleRunning(a) == [a EXCEPT !.running = ~@]

\* AppState.setK(K)
SetK(a, K) == [a EXCEPT !.K = Max(0, Min(K_MAX, K))]

\* AppState.startSweep(direction)
StartSweep(a, direction) == [a EXCEPT !.sweeping = TRUE, !.sweepDirection = direction]

\* AppState.stopSweep()
StopSweep(a) == [a EXCEPT !.sweeping = FALSE, !.sweepDirection = 0]

\* updateSweep() without the lower bound check.
UpdateSweepNoLowerClamp(a) ==
    IF ~a.sweeping
    THEN a
    ELSE LET k == a.K + a.sweepDirection * SWEEP_SPEED
         IN  IF k >= K_MAX THEN StopSweep([a EXCEPT !.K = K_MAX])
             ELSE [a EXCEPT !.K = k]

\* updateSweep() that stops at the upper bound without clamping K to 5.
UpdateSweepNoUpperClamp(a) ==
    IF ~a.sweeping
    THEN a
    ELSE LET k == a.K + a.sweepDirection * SWEEP_SPEED
         IN  IF k <= 0 THEN StopSweep([a EXCEPT !.K = 0])
             ELSE IF k >= K_MAX THEN StopSweep([a EXCEPT !.K = k])
             ELSE [a EXCEPT !.K = k]

\* AppState.updateSweep()
UpdateSweep(a) ==
    IF ~a.sweeping
    THEN a
    ELSE LET k == a.K + a.sweepDirection * SWEEP_SPEED
         IN  IF k <= 0 THEN StopSweep([a EXCEPT !.K = 0])
             ELSE IF k >= K_MAX THEN StopSweep([a EXCEPT !.K = K_MAX])
             ELSE [a EXCEPT !.K = k]

\* AppState.reset()
Reset(a) ==
    [a EXCEPT !.K = DEFAULT_K, !.running = FALSE,
              !.sweeping = FALSE, !.sweepDirection = 0]

\* AppState.getEffectiveDt()
GetEffectiveDt(a) == (APP_DT * SPEED) \div 100

\* K.toFixed(2): K in hundredths.
ToFixed2(K) == RoundDiv(K, 10)

\* Texts of playPauseBtn.
PLAY == "Play"
PAUSE == "Pause"

\* Values the K slider reports (parseFloat(kSlider.value)), in thousandths.
SliderValues == {-500, 3, 4998, 7000}

\* No handler is in the middle of its run: Experiments.run has not started,
\* is suspended at its await, or has returned.
HostIdle == exp.pc \in {"idle", "awaiting", "done"}

\* A user event arrives between two frames.  Of the thousand frames of a
\* sweep, the model takes those where K is a whole number.
BetweenFrames == ~appState.sweeping \/ appState.K % 1000 = 0

\* The host may run one more user event handler.
CanHandle == simState = "ready" /\ HostIdle /\ BetweenFrames /\ event.n < MaxEvents

Handled(name) == event' = [name |-> name, n |-> event.n + 1]

\* App.updateVisuals() and Controls.updateDisplays() on the simulator s and
\* the application state a: the phases handed to the renderers, the state
\* label, the K display and the slider position.
UpdateVisuals(s, a, d) ==
    /\ held' = GetPhases(s).data
    /\ heldRef' = GetPhases(s).ref
    /\ label' = ClassifyState(s)
    /\ last' = Call("classifyState", "", 0)
    /\ dom' = [d EXCEPT !.kValue = ToFixed2(a.K), !.kSlider = a.K]

\* new App(): the simulator is constructed, the controls are wired and the
\* first frame is drawn.
AppStart ==
    /\ simState = "none"
    /\ exp.pc = "idle"
    /\ \E dr \in Draws(LiveN) :
          /\ sim' = NewSimulator(LiveN, dr)
          /\ UpdateVisuals(sim', appState, dom)
    /\ simState' = "ready"
    /\ event' = [name |-> "load", n |-> 0]
    /\ UNCHANGED <<calls, appState, expVars>>

\* kSlider 'input'
KSliderInput ==
    /\ CanHandle
    /\ \E v \in SliderValues :
          LET a == SetK(appState, v)
          IN  /\ appState' = a
              /\ sim' = SetCoupling(sim, a.K)
              /\ last' = Call("setCoupling", "", a.K)
              /\ dom' = [dom EXCEPT !.kSlider = v, !.kValue = ToFixed2(a.K)]
    /\ Handled("kSlider")
    /\ UNCHANGED <<simState, calls, label, held, heldRef, expVars>>

\* sweepUpBtn 'click'
SweepUpClick ==
    /\ CanHandle
    /\ appState' = SetRunning(StartSweep(appState, 1), TRUE)
    /\ Handled("sweepUp")
    /\ UNCHANGED <<ringVars, dom, expVars>>

\* sweepDownBtn 'click'
SweepDownClick ==
    /\ CanHandle
    /\ appState' = SetRunning(StartSweep(appState, -1), TRUE)
    /\ Handled("sweepDown")
    /\ UNCHANGED <<ringVars, dom, expVars>>

\* stopSweepBtn 'click'
StopSweepClick ==
    /\ CanHandle
    /\ appState' = StopSweep(appState)
    /\ Handled("stopSweep")
    /\ UNCHANGED <<ringVars, dom, expVars>>

\* The data-init values of the .init-btn buttons the model clicks.
InitButtons == {"random", "twisted1"}

\* .init-btn 'click'
InitClick ==
    /\ CanHandle
    /\ \E type \in InitButtons : \E dr \in InitDraws(type, sim.N) :
          /\ sim' = SetInitialPhases(sim, type, dr)
          /\ UpdateVisuals(sim', appState, dom)
    /\ Handled("init")
    /\ UNCHANGED <<simState, calls, appState, expVars>>

\* parseFloat(perturbSlider.value) at the click, in hundredths.
PerturbSliderValues == {10}

\* perturbBtn 'click'
PerturbClick ==
    /\ CanHandle
    /\ \E intensity \in PerturbSliderValues : \E dr \in Draws(sim.N) :
          /\ sim' = Perturb(sim, intensity, dr)
          /\ UpdateVisuals(sim', appState, dom)
    /\ Handled("perturb")
    /\ UNCHANGED <<simState, calls, appState, expVars>>

\* playPauseBtn 'click'
PlayPauseClick ==
    /\ CanHandle
    /\ LET a == ToggleRunning(appState)
       IN  /\ appState' = a
           /\ dom' = [dom EXCEPT !.playPauseBtn = IF a.running THEN PAUSE ELSE PLAY,
                                 !.bodyRunning = a.running]
    /\ Handled("playPause")
    /\ UNCHANGED <<ringVars, expVars>>

\* stepBtn 'click'
StepClick ==
    /\ CanHandle
    /\ sim' = Step(sim, GetEffectiveDt(appState))
    /\ UpdateVisuals(sim', appState, dom)
    /\ Handled("step")
    /\ UNCHANGED <<simState, calls, appState, expVars>>

\* resetBtn 'click'
ResetClick ==
    /\ CanHandle
    /\ LET a == Reset(appState)
       IN  /\ appState' = a
           /\ \E dr \in Draws(sim.N) :
                 sim' = SetInitialPhases(SetCoupling(sim, 1000), "random", dr)
           /\ UpdateVisuals(sim', a,
                            [dom EXCEPT !.kSlider = 1000, !.kValue = 100,
                                        !.playPauseBtn = PLAY, !.bodyRunning = FALSE])
    /\ Handled("reset")
    /\ UNCHANGED <<simState, calls, expVars>>

\* App.animate with appState.running true (otherwise the frame changes
\* nothing).  Frames of a sweep always come; the others count as events.
AnimateTick ==
    /\ simState = "ready" /\ HostIdle
    /\ appState.running
    /\ appState.sweeping \/ event.n < MaxEvents
    /\ LET stepped == Step(sim, GetEffectiveDt(appState))
           a == IF appState.sweeping THEN UpdateSweep(appState) ELSE appState
       IN  /\ appState' = a
           /\ sim' = IF appState.sweeping THEN SetCoupling(stepped, a.K) ELSE stepped
           /\ UpdateVisuals(sim', a, dom)
    /\ event' = [name |-> "tick",
                 n |-> IF appState.sweeping THEN event.n ELSE event.n + 1]
    /\ UNCHANGED <<simState, calls, expVars>>

\* K sweeps: the controls that act on K and on the running state.
NextSweep ==
    \/ AppStart
    \/ KSliderInput
    \/ SweepUpClick
    \/ SweepDownClick
    \/ StopSweepClick
    \/ PlayPauseClick
    \/ ResetClick
    \/ AnimateTick

SpecSweep == Init /\ [][NextSweep]_vars

\* A session of K slider moves and sweep clicks.
NextSweepLive ==
    \/ AppStart
    \/ KSliderInput
    \/ SweepUpClick
    \/ SweepDownClick
    \/ AnimateTick

\* What a frame does to appState while a sweep runs: the updateSweep() call
\* of animate.  Once the App has started, AnimateTick is enabled whenever
\* SweepFrame is, and the AnimateTick steps of a sweep are SweepFrame steps.
SweepFrame ==
    /\ appState.running /\ appState.sweeping
    /\ appState' = UpdateSweep(appState)

\* requestAnimationFrame(this.animate) is called again at the start of every
\* frame, so frames keep coming.
SpecSweepFair == Init /\ [][NextSweepLive]_vars /\ WF_appState(SweepFrame)

\* runExperimentBtn 'click' up to the loop of run(): K is appState.K at the
\* click.  The ring size and the step count are reduced (16 and 2000 in the
\* program); a click while a run is suspended is left out.
AppNumSims == {1, 2}

AppRunExperimentClick ==
    /\ CanHandle
    /\ exp.pc \in {"idle", "done"}
    /\ \E numSims \in AppNumSims :
          exp' = [pc |-> "loop", numSims |-> numSims, K |-> appState.K, N |-> LiveN,
                  steps |-> 1, i |-> 0,
                  results |-> [NoResults EXCEPT !.total = numSims],
                  returned |-> NoResults, batch |-> 0,
                  s |-> 0, ring |-> 0, log |-> <<>>]
    /\ Handled("runExperiment")
    /\ UNCHANGED <<trial, ringVars, appState, dom>>

\* The live simulator and a run of Experiments.run side by side.
NextApp ==
    \/ AppStart
    \/ KSliderInput
    \/ PerturbClick
    \/ InitClick
    \/ StepClick
    \/ ResetClick
    \/ PlayPauseClick
    \/ AnimateTick
    \/ AppRunExperimentClick
    \/ Trial
    \/ Resume
    \/ Finish

SpecApp == Init /\ [][NextApp]_vars

---------------------------------------------------------------------------
(* Properties *)

Ready == simState = "ready"

After(op) == Ready /\ last.op = op

\* C1: in every reachable state of a KuramotoSimulator every element of
\* phases lies in [0, 2*pi), whatever calls were made on it.
C1_PhasesInRange ==
    Ready =>
        /\ DOMAIN sim.phases = 0..(sim.N - 1)
        /\ \A i \in 0..(sim.N - 1) : 0 <= sim.phases[i] /\ sim.phases[i] < TWO_PI

\* A perturbation of amplitude 3*pi was applied to a ring of at least four
\* oscillators (every draw below 0.5 pushes its phase below 0).
C1_Witness == After("perturb") /\ last.num = 300 /\ sim.N >= 4

\* C2 (as claimed): when run completes, the returned counters are
\* non-negative and sum to total, which is numTrials.
C2_CountsSumToTotal ==
    exp.pc = "done" =>
        LET res == exp.returned
        IN  /\ res.sync >= 0 /\ res.twisted1 >= 0 /\ res.twisted2 >= 0 /\ res.other >= 0
            /\ res.total = exp.numSims
            /\ res.sync + res.twisted1 + res.twisted2 + res.other = res.total

C4_NoDegenerateRing ==
    /\ Ready => sim.N >= 2
    /\ last.op = "new" /\ last.num < 2 => last.threw

\* C5 (as claimed): a call of setFrequencies or setInitialPhases with an
\* unrecognised policy name is an error, never a normal return.
C5_UnknownPolicyRejected ==
    /\ last.op = "setFrequencies" /\ last.policy \notin KnownFreqTypes => last.threw
    /\ last.op = "setInitialPhases" /\ last.policy \notin KnownInitTypes => last.threw

\* C6: classifyState() returns the first matching rule of: r > 0.9
\* synchronized (whatever q); |q| = 1 and r < 0.5 twisted; |q| = 2 and
\* r < 0.3 twisted; r < 0.3 desynchronized; otherwise partial; it depends on
\* the current (r, q) only and changes no ring state.
C6_LabelRule ==
    After("classifyState") =>
        LET o == GetOrderParameter(sim)
            q == GetWindingNumber(sim)
            high == ~o.nan /\ o.r > 90
            t1 == Abs(q) = 1 /\ ~o.nan /\ o.r < 50
            t2 == Abs(q) = 2 /\ ~o.nan /\ o.r < 30
            low == ~o.nan /\ o.r < 30
        IN  /\ high => label = <<"Synchronise", 0, 0>>
            /\ ~high /\ t1 => label = <<"Twisted", 0, q>>
            /\ ~high /\ ~t1 /\ t2 => label = <<"Twisted", 0, q>>
            /\ ~high /\ ~t1 /\ ~t2 /\ low => label = <<"Desynchronise", 0, 0>>
            /\ ~high /\ ~t1 /\ ~t2 /\ ~low => label[1] = "Partiel" /\ label[3] = q

C6_CallIsPure == last'.op = "classifyState" => sim' = sim

\* C6: the label follows the rules in every state reached by a
\* classifyState() call, and the call leaves the ring as it was.
C6_ClassifyState == []C6_LabelRule /\ [][C6_CallIsPure]_vars

\* classifyState() answered "partial" on a ring of winding number 1 or -1
\* whose r is not below 0.5: the second rule did not match, the fifth did.
C6_Witness ==
    /\ After("classifyState")
    /\ label[1] = "Partiel"
    /\ Abs(label[3]) = 1
    /\ label[2] >= 50


\* The counter the claim assigns to a trial that ends with order parameter o
\* and winding number q.
ExpectedCounter(o, q) ==
    IF ~o.nan /\ o.r > 85 THEN "sync"
    ELSE IF q \in {1, -1} THEN "twisted1"
    ELSE IF q \in {2, -2} THEN "twisted2"
    ELSE "other"

\* C7: each trial of Experiments.run increments exactly one counter, chosen
\* from the trial's final (r, q): sync if r > 0.85, else twisted1 if |q| = 1,
\* else twisted2 if |q| = 2, else other.
C7_TrialStep ==
    exp.pc = "loop" /\ exp.i < exp.numSims =>
        exp'.results =
            Increment(exp.results,
                      ExpectedCounter(GetOrderParameter(trial'), GetWindingNumber(trial')))

\* C7: every iteration of the trial loop counts its trial as the rule says.
C7_TrialCounting == [][C7_TrialStep]_vars

\* The first trial ended with 0.85 < r <= 0.9 and was counted as sync.
C7_Witness ==
    /\ exp.pc = "awaiting"
    /\ exp.i = 0
    /\ GetOrderParameter(trial).r \in 86..90
    /\ exp.results.sync = 1

\* C8 (as claimed): after setFrequencies('twoGroups') on a ring of N >= 2
\* exactly the first floor(N/2) oscillators have frequency 0.8 and the rest
\* 1.2.
C8_TwoGroupsFloor ==
    After("setFrequencies") /\ last.policy = "twoGroups" /\ sim.N >= 2 =>
        \A i \in 0..(sim.N - 1) :
            sim.frequencies[i] = IF i < sim.N \div 2 THEN 80 ELSE 120

\* C8 (amended): after setFrequencies('twoGroups') on a ring of N >= 2
\* exactly the first ceil(N/2) oscillators (the indices i < N/2) have
\* frequency 0.8 and the rest 1.2.
C8_TwoGroupsCeil ==
    After("setFrequencies") /\ last.policy = "twoGroups" /\ sim.N >= 2 =>
        \A i \in 0..(sim.N - 1) :
            sim.frequencies[i] = IF i < (sim.N + 1) \div 2 THEN 80 ELSE 120

\* 'twoGroups' on a ring of five: the middle oscillator is in the slow group.
C8_Witness ==
    /\ After("setFrequencies")
    /\ last.policy = "twoGroups"
    /\ sim.N = 5
    /\ sim.frequencies[2] = 80
    /\ sim.frequencies[3] = 120

\* C9: K is non-negative in every reachable state; setCoupling(k) stores
\* max(0, k) with no upper bound; no other call on the ring changes K.
C9_KNonNegative ==
    Ready =>
        /\ sim.K >= 0
        /\ last.op = "setCoupling" /\ last.num < 0 => sim.K = 0
        /\ last.op = "setCoupling" /\ last.num >= 0 => sim.K = last.num

C9_KFrame == last'.op \notin {"new", "setCoupling"} => sim'.K = sim.K

\* C9: K is never negative, setCoupling stores max(0, k), and only the
\* constructor and setCoupling assign K.
C9_Coupling == []C9_KNonNegative /\ [][C9_KFrame]_vars

\* setCoupling was called with a negative value and K is 0.
C9_Witness == After("setCoupling") /\ last.num < 0 /\ sim.K = 0

\* C10: getPhases() returns an independent copy: a write by the caller into
\* the returned array leaves the ring's phases unchanged, and a mutation of
\* the ring leaves the returned array unchanged.
C10_WriteLeavesRing == last'.op = "callerWrite" => sim'.phases = sim.phases

C10_MutationLeavesCopy ==
    /\ heldRef # "none"
    /\ last'.op \in {"step", "stepRK4", "perturb", "setInitialPhases"}
    => HeldView' = HeldView

\* C10: caller writes never reach the ring, ring mutations never reach the
\* returned array.
C10_IndependentCopy == [][C10_WriteLeavesRing /\ C10_MutationLeavesCopy]_vars

\* The caller wrote into the returned array and the ring does not show it.
C10_Witness ==
    /\ After("callerWrite")
    /\ \E i \in 0..(sim.N - 1) : HeldView[i] = 700 /\ sim.phases[i] # 700

\* C11: a running Experiments.run suspends after every trial whose index i
\* satisfies i mod 10 = 0 (so after the very first trial), after no other
\* trial, and never executes more than 10 trials between two suspensions.
C11_BatchBound ==
    /\ exp.batch <= 10
    /\ exp.pc = "awaiting" => exp.i % 10 = 0

C11_SuspendRule ==
    exp.pc = "loop" /\ exp.i < exp.numSims =>
        /\ exp.i % 10 = 0 => exp'.pc = "awaiting" /\ exp'.i = exp.i
        /\ exp.i % 10 # 0 => exp'.pc = "loop" /\ exp'.i = exp.i + 1

\* C11: the batch bound holds in every state and every trial obeys the
\* suspension rule.
C11_Yielding == []C11_BatchBound /\ [][C11_SuspendRule]_vars

\* The run is suspended after the trial of index 20, the tenth trial since
\* it resumed from the suspension after the trial of index 10.
C11_Witness == exp.pc = "awaiting" /\ exp.i = 20 /\ exp.batch = 10

\* C12: with K = 0 each phase evolves independently of the other
\* oscillators: after n calls of step(dt) from the phases theta(0), phases[i]
\* is (theta_i(0) + n * dt * omega_i) mod 2*pi, for every i, n and frequency
\* assignment (dt * omega_i being the product as step computes it).
C12_FreeRotation ==
    simState = "ready" /\ sim.K = 0 /\ last.op = "step" =>
        \A i \in 0..(sim.N - 1) :
            sim.phases[i] =
                (held[i] + calls * ((sim.frequencies[i] * last.num) \div 100)) % TWO_PI

\* Three steps were made on an uncoupled ring whose oscillators have
\* different frequencies, and one of its phases has wrapped past 2*pi.
C12_Witness ==
    /\ simState = "ready" /\ sim.K = 0 /\ last.op = "step" /\ calls >= 3
    /\ sim.N >= 3
    /\ \E i, j \in 0..(sim.N - 1) : sim.frequencies[i] # sim.frequencies[j]
    /\ \E i \in 0..(sim.N - 1) : sim.phases[i] < held[i]

\* C13: perturb(0) leaves every phase unchanged, whatever the ring state and
\* the random draws, and leaves frequencies and K unchanged as well.
C13_PerturbZeroStep ==
    last'.op = "perturb" /\ last'.num = 0 =>
        /\ sim'.phases = sim.phases
        /\ sim'.frequencies = sim.frequencies
        /\ sim'.K = sim.K

C13_PerturbZero == [][C13_PerturbZeroStep]_vars

\* perturb(0) was called on a ring of at least three oscillators whose phases
\* are not all equal.
C13_Witness ==
    /\ After("perturb") /\ last.num = 0 /\ sim.N >= 3
    /\ \E i, j \in 0..(sim.N - 1) : sim.phases[i] # sim.phases[j]

\* C14: computeDerivatives() (used by step and the k1 stage of stepRK4) and
\* computeDerivativesFor() (used by the k2..k4 stages) are the same function
\* of (phase vector, frequencies, K): on the ring's own phases they yield the
\* same vector; the entry of oscillator i reads the phases of i and of its
\* ring neighbours only; neither result depends on other engine state (the
\* dPhases left by an earlier call).
C14_SameDerivative ==
    Ready =>
        LET own == ComputeDerivatives(sim).dPhases
            cleared == [sim EXCEPT !.dPhases = Float64Array(sim.N)]
        IN  /\ ComputeDerivativesFor(sim, sim.phases) = own
            /\ ComputeDerivatives(cleared).dPhases = own
            /\ ComputeDerivativesFor(cleared, sim.phases) = own
            /\ \A i, j \in 0..(sim.N - 1) :
                   j \notin {i, (i - 1 + sim.N) % sim.N, (i + 1) % sim.N} =>
                       LET moved == [sim EXCEPT !.phases[j] = @ + 100]
                       IN  /\ ComputeDerivatives(moved).dPhases[i] = own[i]
                           /\ ComputeDerivativesFor(sim, moved.phases)[i] = own[i]

\* A coupled ring of at least four oscillators after a step: dPhases holds
\* the derivatives of the previous phases, and the coupling term of some
\* oscillator is not zero.
C14_Witness ==
    /\ Ready /\ sim.N >= 4 /\ sim.K > 0
    /\ last.op \in {"step", "stepRK4"}
    /\ sim.dPhases # Float64Array(sim.N)
    /\ \E i \in 0..(sim.N - 1) : ComputeDerivatives(sim).dPhases[i] # sim.frequencies[i]

\* The calls the claim lists for one trial, in order.
ExpectedCalls(N, K, steps) ==
    <<Logged("new", N), Logged("setCoupling", K),
      Logged("setFrequencies", "identical"), Logged("setInitialPhases", "random")>>
    \o [k \in 1..steps |-> Logged("step", 2)]
    \o <<Logged("getOrderParameter", 0), Logged("getWindingNumber", 0)>>

IsPrefix(a, b) == Len(a) <= Len(b) /\ a = SubSeq(b, 1, Len(a))

\* C15: in every trial of Experiments.run a fresh ring is constructed with N,
\* then setCoupling(K), setFrequencies('identical'),
\* setInitialPhases('random') are called, then step exactly `steps` times
\* with dt = 0.02, and only after the last step are r and q read; the ring of
\* a trial is the one constructed in that trial.
C15_TrialOrder ==
    LET expected == ExpectedCalls(exp.N, exp.K, exp.steps)
        inTrial == exp.pc \in {"constructed", "coupled", "tuned", "stepping", "awaiting"}
        counted == exp.results.sync + exp.results.twisted1
                   + exp.results.twisted2 + exp.results.other
    IN  /\ IsPrefix(exp.log, expected)
        /\ inTrial => exp.ring = exp.i + 1
        /\ exp.pc = "loop" => exp.ring = exp.i
        /\ exp.pc \in {"constructed", "coupled", "tuned", "stepping"} => counted = exp.i
        /\ exp.pc \in {"awaiting", "loop", "done"} /\ counted > 0 => exp.log = expected

\* The third trial of a run with steps = 2 has been counted: its ring is the
\* third one constructed and took the two steps before r and q were read.
C15_Witness ==
    /\ exp.pc = "loop" /\ exp.i = 3 /\ exp.ring = 3 /\ exp.steps = 2
    /\ exp.N >= 3
    /\ Len(exp.log) = 8
    /\ exp.log[6] = Logged("step", 2)
    /\ exp.log[7] = Logged("getOrderParameter", 0)

\* The neighbour phase difference of edge (i, i+1 mod N), wrapped as
\* getWindingNumber() wraps it.
EdgeDiff(s, i) == WrapUp(WrapDown(s.phases[(i + 1) % s.N] - s.phases[i]))

\* The difference of edge i crosses +pi or -pi between the ring states s and
\* t: its wrapped value jumps by pi or more (one call moves a difference by
\* much less than pi for the time steps and couplings tried).
Crosses(s, t, i) == Abs(EdgeDiff(t, i) - EdgeDiff(s, i)) >= PI

\* No neighbour difference of s is an odd multiple of pi.
NoEdgeAtPi(s) ==
    \A i \in 0..(s.N - 1) :
        (s.phases[(i + 1) % s.N] - s.phases[i] - PI) % TWO_PI # 0

C16_StepOnlyAtCrossing ==
    /\ simState = "ready" /\ simState' = "ready"
    /\ last'.op \in {"step", "stepRK4"}
    /\ GetWindingNumber(sim') # GetWindingNumber(sim)
    => \E i \in 0..(sim.N - 1) : Crosses(sim, sim', i)

\* C16 (as claimed): getWindingNumber() is unchanged by normalizePhases, and
\* a step or stepRK4 call changes it only if some neighbour phase difference
\* crosses +pi or -pi during that call.
C16_NormalizeKeepsWindingStep ==
    /\ simState = "normalizing" /\ simState' = "ready"
       => GetWindingNumber(sim') = GetWindingNumber(sim)
    /\ C16_StepOnlyAtCrossing

C16_NormalizeKeepsWinding == [][C16_NormalizeKeepsWindingStep]_vars

\* C16 (amended): getWindingNumber() is unchanged by normalizePhases when no
\* neighbour phase difference is an odd multiple of pi, and a step or stepRK4
\* call changes it only if some neighbour phase difference crosses +pi or
\* -pi during that call.
C16_NormalizeKeepsWindingAwayFromPiStep ==
    /\ simState = "normalizing" /\ simState' = "ready" /\ NoEdgeAtPi(sim)
       => GetWindingNumber(sim') = GetWindingNumber(sim)
    /\ C16_StepOnlyAtCrossing

C16_WindingInvariance == [][C16_NormalizeKeepsWindingAwayFromPiStep]_vars

\* perturb(3.0) has returned on a ring of at least three oscillators: its
\* phases were brought back from outside [0, 2*pi), and the winding number
\* is not 0.
C16_Witness ==
    /\ After("perturb") /\ last.num = 300 /\ sim.N >= 3
    /\ GetWindingNumber(sim) # 0


\* C17: in every interleaving of animation ticks and UI events with the
\* suspension points of a running Experiments.run, no step changes both the
\* run (its counters, its trial ring) and the live side (the App's simulator,
\* appState); the K of the run is appState.K at the click and stays what it
\* is until the run returns; every trial ring is given that K.
RunChanged == exp' # exp \/ trial' # trial

LiveChanged == sim' # sim \/ appState' # appState

C17_IsolationStep ==
    /\ ~(RunChanged /\ LiveChanged)
    /\ (exp.pc \in {"idle", "done"} /\ exp'.pc = "loop") => exp'.K = appState.K
    /\ exp.pc \notin {"idle", "done"} => exp'.K = exp.K
    /\ (exp.pc = "loop" /\ exp'.batch = exp.batch + 1) => trial'.K = exp.K

C18_LiveCouplingFollowsAppState ==
    simState = "ready" => sim.K = appState.K

\* The tick on which a downward sweep, started by the only click of the
\* session, has hit 0.
C18_Witness ==
    /\ event = [name |-> "tick", n |-> 1]
    /\ appState.running /\ ~appState.sweeping
    /\ appState.K = 0 /\ sim.K = 0

\* C20: after every completed UI event handler (play/pause, sweep up, sweep
\* down, stop sweep, reset), the play/pause button reads 'Pause' and the body
\* carries the class 'running' exactly when appState.running is true.
PlayControls == {"playPause", "sweepUp", "sweepDown", "stopSweep", "reset"}

C20_PlayPauseAgrees ==
    event.name \in PlayControls =>
        /\ (dom.playPauseBtn = PAUSE) <=> appState.running
        /\ dom.bodyRunning <=> appState.running

\* C19: once a K sweep is started with direction +1 or -1, the simulation is
\* running, animation ticks keep firing and no further user event arrives
\* (the session's events are used up: event.n = MaxEvents),
\* the sweep eventually stops, with sweeping false, sweepDirection 0 and
\* appState.K exactly 5 (direction +1) or exactly 0 (direction -1); and
\* appState.K never leaves [0, 5].
Sweeping(direction, n) ==
    /\ appState.sweeping /\ appState.sweepDirection = direction
    /\ appState.running
    /\ event.n = n

StoppedAt(K) ==
    ~appState.sweeping /\ appState.sweepDirection = 0 /\ appState.K = K

C19_KInRange == appState.K \in 0..K_MAX

C19_SweepStops ==
    /\ []C19_KInRange
    /\ Sweeping(1, MaxEvents) ~> StoppedAt(K_MAX)
    /\ Sweeping(-1, MaxEvents) ~> StoppedAt(0)

\* An upward sweep started from a slider position just below 5 has stopped
\* at 5 without another user event.
C19_Witness ==
    /\ event = [name |-> "tick", n |-> MaxEvents]
    /\ appState.running /\ StoppedAt(K_MAX)

====
